---------------------------- MODULE Spec2Model ----------------------------
(***************************************************************************)
(* A model of the pem crate (src/lib.rs): the PEM_SECTION pattern, the     *)
(* parse_helper pipeline (label check, whitespace replacement, base64      *)
(* decoding) and the two entry points parse and parse_many.                *)
(*                                                                         *)
(* Text is a sequence of one-character strings; the characters that have   *)
(* no printable form are named: "NL" (\n), "CR" (\r) and "TAB" (\t).       *)
(* Positions are 1-based; a position p names the next character to be      *)
(* consumed and may be Len(s) + 1 (the end of the text).                   *)
(***************************************************************************)
EXTENDS Integers, Sequences, FiniteSets

(***************************************************************************)
(* The literals of PEM_SECTION.                                            *)
(***************************************************************************)
Dashes == <<"-", "-", "-", "-", "-">>

BeginMarker == Dashes \o <<"B", "E", "G", "I", "N", " ">>

EndMarker == Dashes \o <<"E", "N", "D", " ">>

\* The characters \s matches, among the characters the inputs are built from.
IsSpace(c) == c \in {" ", "NL", "CR", "TAB"}

\* Slice with its upper end included: a capture one character too long.
SliceInclusive(s, lo, hi) == SubSeq(s, lo, hi)

\* The text s[lo .. hi-1].
Slice(s, lo, hi) == SubSeq(s, lo, hi - 1)

\* The literal lit occurs in s at position p.
LitAt(s, lit, p) ==
    /\ p >= 1
    /\ p + Len(lit) - 1 <= Len(s)
    /\ \A i \in 1..Len(lit) : s[p + i - 1] = lit[i]

\* The length of the longest run of \s characters of s that starts at p.
RECURSIVE SpaceRun(_, _)
SpaceRun(s, p) ==
    IF p <= Len(s) /\ IsSpace(s[p]) THEN 1 + SpaceRun(s, p + 1) ELSE 0

NoMatch == [ok |-> FALSE]

\* Of the matches in R (each anchored at its own position at), the one that
\* is anchored first, or last.
First(R) ==
    IF R \subseteq {NoMatch} THEN NoMatch
    ELSE CHOOSE m \in R \ {NoMatch} : \A o \in R \ {NoMatch} : m.at <= o.at

Last(R) ==
    IF R \subseteq {NoMatch} THEN NoMatch
    ELSE CHOOSE m \in R \ {NoMatch} : \A o \in R \ {NoMatch} : m.at >= o.at

\* The positions from p on at which the literal lit occurs in s.
Occurrences(s, lit, p) == {i \in p..Len(s) : LitAt(s, lit, i)}

(***************************************************************************)
(* The pattern, piece by piece, with the priorities of the regex crate's   *)
(* leftmost-first matching: a lazy .*? takes the shortest text after which *)
(* the rest of the pattern matches, a greedy \s* the longest.              *)
(***************************************************************************)

\* -----\s*  at position t, the end of the pattern: the \s* takes the whole
\* run of whitespace.  endLo is where the closing label began.
Bracket(s, endLo, t) ==
    [ok |-> TRUE, at |-> t, endLo |-> endLo, endHi |-> t,
     stop |-> t + Len(Dashes) + SpaceRun(s, t + Len(Dashes))]

\* EndPart with the closing bracket optional at the end of the text.
EndPartOrEof(s, r) ==
    First({Bracket(s, r, t) : t \in Occurrences(s, Dashes, r) \cup {Len(s) + 1}})

\* EndPart with a greedy label, (?P<end>.*)-----\s*: the last bracket.
EndPartGreedy(s, r) == Last({Bracket(s, r, t) : t \in Occurrences(s, Dashes, r)})

\* (?P<end>.*?)-----\s*  from position r, the position after "-----END ".
EndPart(s, r) == First({Bracket(s, r, t) : t \in Occurrences(s, Dashes, r)})

\* -----END (?P<end>.*?)-----\s*  at position e; dataLo is where the data
\* began.
Closing(s, dataLo, e, end) ==
    IF ~end.ok THEN NoMatch
    ELSE [ok |-> TRUE, at |-> e, dataLo |-> dataLo, dataHi |-> e,
          endLo |-> end.endLo, endHi |-> end.endHi, stop |-> end.stop]

\* DataPart with a greedy body, (?P<data>.*)-----END : the last closing
\* marker.
DataPartGreedy(s, q) ==
    Last({Closing(s, q, e, EndPart(s, e + Len(EndMarker))) :
             e \in Occurrences(s, EndMarker, q)})

\* (?P<data>.*?)-----END  and the rest, from position q.
DataPart(s, q) ==
    First({Closing(s, q, e, EndPart(s, e + Len(EndMarker))) :
              e \in Occurrences(s, EndMarker, q)})

\* The match m, anchored at position a.
Anchored(m, a) == IF m.ok THEN [m EXCEPT !.at = a] ELSE NoMatch

\* \s*  after the opening label's closing bracket, and the rest, from p: the
\* longest run of whitespace after which the rest matches.
AfterBegin(s, p) ==
    Last({Anchored(DataPart(s, p + k), p + k) : k \in 0..SpaceRun(s, p)})

\* -----\s*(?P<data>.*?)-----END (?P<end>.*?)-----\s*  at position c, the
\* opening label having begun at l.
Opening(s, b, l, c, rest) ==
    IF ~rest.ok THEN NoMatch
    ELSE [ok |-> TRUE, at |-> c, start |-> b, stop |-> rest.stop,
          begin |-> Slice(s, l, c),
          dataLo |-> rest.dataLo, dataHi |-> rest.dataHi,
          data |-> Slice(s, rest.dataLo, rest.dataHi),
          end |-> Slice(s, rest.endLo, rest.endHi)]

\* The whole pattern anchored at position b, where "-----BEGIN " occurs.
MatchAt(s, b) ==
    First({Opening(s, b, b + Len(BeginMarker), c, AfterBegin(s, c + Len(Dashes))) :
              c \in Occurrences(s, Dashes, b + Len(BeginMarker))})

\* Regex::captures on the text from position from on: the leftmost match.
Captures(s, from) ==
    First({Anchored(MatchAt(s, b), b) : b \in Occurrences(s, BeginMarker, from)})

(***************************************************************************)
(* Base64 decoding: rustc_serialize's FromBase64 for str, which the crate  *)
(* calls on the replaced data.  It reads bytes up to the first '=',        *)
(* accepting the standard and the URL-safe alphabet and skipping \r and    *)
(* \n; after the first '=' it accepts only '=', \r and \n; the number of   *)
(* characters read before the '=' modulo 4 decides the tail.               *)
(***************************************************************************)
Base64Chars ==
    <<"A", "B", "C", "D", "E", "F", "G", "H", "I", "J", "K", "L", "M",
      "N", "O", "P", "Q", "R", "S", "T", "U", "V", "W", "X", "Y", "Z",
      "a", "b", "c", "d", "e", "f", "g", "h", "i", "j", "k", "l", "m",
      "n", "o", "p", "q", "r", "s", "t", "u", "v", "w", "x", "y", "z",
      "0", "1", "2", "3", "4", "5", "6", "7", "8", "9", "+", "/">>

StandardAlphabet == {Base64Chars[i] : i \in 1..Len(Base64Chars)}

\* The six-bit value of a character of the standard alphabet.
StandardCode == [c \in StandardAlphabet |->
                    (CHOOSE i \in 1..Len(Base64Chars) : Base64Chars[i] = c) - 1]

\* The characters from_base64 gives a value to: '-' and '_' read as '+' and '/'.
IsCoded(c) == c \in StandardAlphabet \cup {"-", "_"}

CodeOf(c) ==
    IF c = "-" THEN StandardCode["+"]
    ELSE IF c = "_" THEN StandardCode["/"]
    ELSE StandardCode[c]

DecodeError == [ok |-> FALSE]

\* Each byte pushed is (buf >> k) as u8, with k + 7 <= 29.
Byte(buf, k) == (buf \div (2 ^ k)) % 256

\* buf = (buf | code) << 6 on a u32.  The bits the shift pushes out of the
\* u32 are lost; no byte is ever read above bit 29, so buf is kept to its
\* low 30 bits (the integers of the checker are 32-bit signed).  The low six
\* bits of buf are zero after a shift, so the | is a +.
ShiftIn(buf, code) == ((buf % (2 ^ 24)) + code) * 64

\* The match on modulus after the two loops.
DecodeTail(buf, modulus, out) ==
    CASE modulus = 0 -> [ok |-> TRUE, bytes |-> out]
      [] modulus = 2 -> [ok |-> TRUE, bytes |-> Append(out, Byte(buf, 10))]
      [] modulus = 3 -> [ok |-> TRUE,
                         bytes |-> out \o <<Byte(buf, 16), Byte(buf, 8)>>]
      [] OTHER -> DecodeError

\* The second loop: what follows the first '='.
PaddingOk(s, i) == \A j \in i..Len(s) : s[j] \in {"=", "CR", "NL"}

\* The first loop, at character i.
RECURSIVE DecodeLoop(_, _, _, _, _)
DecodeLoop(s, i, buf, modulus, out) ==
    IF i > Len(s) THEN DecodeTail(buf, modulus, out)
    ELSE IF s[i] \in {"CR", "NL"} THEN DecodeLoop(s, i + 1, buf, modulus, out)
    ELSE IF s[i] = "=" THEN
        IF PaddingOk(s, i + 1) THEN DecodeTail(buf, modulus, out)
        ELSE DecodeError
    ELSE IF ~IsCoded(s[i]) THEN DecodeError
    ELSE LET b == ShiftIn(buf, CodeOf(s[i]))
         IN  IF modulus = 3
             THEN DecodeLoop(s, i + 1, b, 0,
                             out \o <<Byte(b, 22), Byte(b, 14), Byte(b, 6)>>)
             ELSE DecodeLoop(s, i + 1, b, modulus + 1, out)

FromBase64(s) == DecodeLoop(s, 1, 0, 0, <<>>)

(***************************************************************************)
(* parse_helper                                                            *)
(***************************************************************************)
None == [some |-> FALSE]

\* TagsDiffer with the case of the labels ignored.
Lowered(tag) == [i \in 1..Len(tag) |-> IF tag[i] = "X" THEN "x" ELSE tag[i]]

TagsDifferIgnoringCase(tag, tagEnd) == Lowered(tag) # Lowered(tagEnd)

\* tag != tag_end
TagsDiffer(tag, tagEnd) == tag # tagEnd

\* ReplaceWhitespace without its second replace.
ReplaceNewlinesOnly(data) ==
    LET NotNewline(c) == c # "NL"
    IN  SelectSeq(data, NotNewline)

\* ReplaceWhitespace with every \s character replaced.
ReplaceAllWhitespace(data) ==
    LET NotWhite(c) == ~IsSpace(c)
    IN  SelectSeq(data, NotWhite)

\* data.replace("\n", "").replace(" ", "")
ReplaceWhitespace(data) ==
    LET NotNewline(c) == c # "NL"
        NotSpace(c) == c # " "
    IN  SelectSeq(SelectSeq(data, NotNewline), NotSpace)

\* The match on data.from_base64().
OnDecoded(tag, d) ==
    IF d.ok THEN [some |-> TRUE, tag |-> tag, contents |-> d.bytes] ELSE None

\* ParseHelper without the check of the labels.
ParseHelperUnchecked(caps) ==
    OnDecoded(caps.begin, FromBase64(ReplaceWhitespace(caps.data)))

ParseHelper(caps) ==
    IF TagsDiffer(caps.begin, caps.end) THEN None
    ELSE OnDecoded(caps.begin, FromBase64(ReplaceWhitespace(caps.data)))

\* captures_iter: the matches from position from on, each search resuming
\* where the match before it stopped.
RECURSIVE CapturesIter(_, _)
Yield(s, caps) ==
    IF caps.ok THEN <<caps>> \o CapturesIter(s, caps.stop) ELSE <<>>

CapturesIter(s, from) == Yield(s, Captures(s, from))

\* Some(pem) is kept, None is dropped.
Kept(r) == IF r.some THEN <<r>> ELSE <<>>

\* filter_map(parse_helper).collect()
RECURSIVE FilterMap(_)
FilterMap(cs) ==
    IF cs = <<>> THEN <<>>
    ELSE Kept(ParseHelper(Head(cs))) \o FilterMap(Tail(cs))

\* parse_many
ParseMany(s) == FilterMap(CapturesIter(s, 1))

\* OnCaptures without the check of the labels.
OnCapturesUnchecked(caps) == IF caps.ok THEN ParseHelperUnchecked(caps) ELSE None

\* The match arm of parse.
OnCaptures(caps) == IF caps.ok THEN ParseHelper(caps) ELSE None

\* Parse going on to the next candidate when one is rejected: the first
\* record of parse_many.
ParseFirstValid(s) == IF ParseMany(s) = <<>> THEN None ELSE Head(ParseMany(s))

\* parse: the first match of the pattern, through parse_helper.
Parse(s) == OnCaptures(Captures(s, 1))

(***************************************************************************)
(* The inputs.  An input is the text of a sequence of items: a section     *)
(* (opening marker, label, bracket, body, closing marker, label, bracket)  *)
(* or a piece of other text.  shape records the items the input was        *)
(* written from; the program reads input alone.                            *)
(***************************************************************************)
MaxItems == 3

MaxInserts == 2

Sec(b, body, e) == [kind |-> "section", begin |-> b, body |-> body, end |-> e]

Junk(text) == [kind |-> "junk", text |-> text]

ItemText(it) ==
    IF it.kind = "section"
    THEN BeginMarker \o it.begin \o Dashes \o it.body
             \o EndMarker \o it.end \o Dashes
    ELSE it.text

RECURSIVE Flatten(_)
Flatten(items) ==
    IF items = <<>> THEN <<>> ELSE ItemText(Head(items)) \o Flatten(Tail(items))

\* "QQ==" is the byte 65, "QUJD" the bytes 65, 66, 67.
BodyA == <<"NL", "Q", "Q", "=", "=", "NL">>

BodyABC == <<"Q", "U", "J", "D">>

BodyBad == <<"Q", "!", "=", "=">>

\* The items of the inputs that hold several sections.
ManyItems ==
    { Sec(<<"X">>, BodyA, <<"X">>),
      Sec(<<"x">>, BodyABC, <<"x">>),
      Sec(<<"X">>, BodyA, <<"x">>),
      Sec(<<"X">>, BodyBad, <<"X">>),
      Junk(<<"NL", " ">>),
      Junk(<<"j", "-">>),
      Junk(BeginMarker \o <<"X">> \o Dashes),
      Junk(EndMarker \o <<"X">> \o Dashes),
      Junk(BeginMarker \o <<"X">> \o Dashes \o BodyABC \o EndMarker \o <<"X">>) }

RECURSIVE SeqsUpTo(_, _)
SeqsUpTo(S, n) ==
    IF n = 0 THEN {<<>>}
    ELSE LET R == SeqsUpTo(S, n - 1)
         IN  R \cup {Append(r, x) : r \in {q \in R : Len(q) = n - 1}, x \in S}

\* One section, its body a core with characters inserted into it.
Cores == {<<>>, <<"Q", "Q", "=", "=">>}

Fillers == {" ", "NL", "CR", "TAB", "!", "-"}

InsertAt(s, i, c) == SubSeq(s, 1, i) \o <<c>> \o SubSeq(s, i + 1, Len(s))

RECURSIVE Inserted(_)
Inserted(n) ==
    IF n = 0 THEN Cores
    ELSE LET R == Inserted(n - 1)
         IN  R \cup UNION {{InsertAt(b, i, c) : i \in 0..Len(b), c \in Fillers} :
                                b \in R}

\* One section, its label not a single letter.
OtherLabels == {<<>>, <<"X", " ", "Y">>, <<"X", "-", "Y">>}

Shapes ==
    SeqsUpTo(ManyItems, MaxItems)
        \cup {<<Sec(<<"X">>, b, <<"X">>)>> : b \in Inserted(MaxInserts)}
        \cup {<<Sec(l, BodyA, l)>> : l \in OtherLabels}

(***************************************************************************)
(* The state: an input, the result of parse on it, and parse_many on it,   *)
(* one match of captures_iter at a time.                                   *)
(***************************************************************************)
VARIABLES shape, input, pc, parsed, pos, cands, many

vars == <<shape, input, pc, parsed, pos, cands, many>>

Init ==
    /\ shape \in Shapes
    /\ input = Flatten(shape)
    /\ pc = "parse"
    /\ parsed = None
    /\ pos = 1
    /\ cands = <<>>
    /\ many = <<>>

\* parse(input)
CallParse ==
    /\ pc = "parse"
    /\ parsed' = Parse(input)
    /\ pc' = "parse_many"
    /\ UNCHANGED <<shape, input, pos, cands, many>>

\* captures_iter yields caps, filter_map keeps what parse_helper makes of it.
Yielded(caps) ==
    /\ caps.ok
    /\ cands' = Append(cands, caps)
    /\ pos' = caps.stop
    /\ many' = many \o Kept(ParseHelper(caps))

\* parse_many(input): the next match of captures_iter.
NextCapture ==
    /\ pc = "parse_many"
    /\ Yielded(Captures(input, pos))
    /\ UNCHANGED <<shape, input, pc, parsed>>

\* parse_many(input): captures_iter is exhausted, collect returns.
Collect ==
    /\ pc = "parse_many"
    /\ ~Captures(input, pos).ok
    /\ pc' = "done"
    /\ UNCHANGED <<shape, input, parsed, pos, cands, many>>

Next == CallParse \/ NextCapture \/ Collect

Spec == Init /\ [][Next]_vars

(***************************************************************************)
(* What the properties are stated with.                                    *)
(***************************************************************************)

\* The reference decoding of padded base64 (RFC 4648): groups of four
\* characters of the standard alphabet, the last group padded with one or two
\* '='.
RefValid(s) ==
    /\ Len(s) % 4 = 0
    /\ \A i \in 1..Len(s) :
          \/ s[i] \in StandardAlphabet
          \/ s[i] = "=" /\ i = Len(s)
          \/ s[i] = "=" /\ i = Len(s) - 1 /\ s[Len(s)] = "="

RefValue(c) == IF c = "=" THEN 0 ELSE StandardCode[c]

RefGroup(a, b, c, d) ==
    LET n == RefValue(a) * 262144 + RefValue(b) * 4096 + RefValue(c) * 64 + RefValue(d)
    IN  SubSeq(<<n \div 65536, (n \div 256) % 256, n % 256>>, 1,
               IF c = "=" THEN 1 ELSE IF d = "=" THEN 2 ELSE 3)

RECURSIVE RefDecode(_)
RefDecode(s) ==
    IF s = <<>> THEN <<>>
    ELSE RefGroup(s[1], s[2], s[3], s[4]) \o RefDecode(SubSeq(s, 5, Len(s)))

Min(S) == CHOOSE x \in S : \A y \in S : x <= y

\* A text without its line breaks and plain spaces.
NotBreakOrSpace(c) == c \notin {"NL", "CR", " "}

Unwrapped(s) == SelectSeq(s, NotBreakOrSpace)

IsSection(it) == it.kind = "section"

\* Text between sections that holds no bracket, and so no marker.
IsPlain(it) == it.kind = "junk" /\ Occurrences(it.text, Dashes, 1) = {}

IsBlank(it) == it.kind = "junk" /\ \A i \in 1..Len(it.text) : IsSpace(it.text[i])

\* A section as the claims' hypotheses have it: the same label twice.
Matching(it) == IsSection(it) /\ it.begin = it.end

\* The record parse_helper makes of a candidate, if it makes one.
Accepted(c) == c.begin = c.end /\ FromBase64(ReplaceWhitespace(c.data)).ok

Record(tag, bytes) == [some |-> TRUE, tag |-> tag, contents |-> bytes]

Returned == pc # "parse"

Done == pc = "done"

(***************************************************************************)
(* The properties.                                                         *)
(***************************************************************************)

\* The i-th item of the input is a section with the same label twice and a
\* body that is valid padded base64 once unwrapped, and no other item of the
\* input holds a marker.
OnlySection(i) ==
    /\ Matching(shape[i])
    /\ RefValid(Unwrapped(shape[i].body))
    /\ \A j \in (1..Len(shape)) \ {i} : IsPlain(shape[j])

\* C1: on an input that holds exactly one section, its two labels the same
\* label L and its body valid padded base64 once line breaks and spaces are
\* removed, parse returns a record whose tag is L and whose contents are the
\* reference decoding of the unwrapped body.
C1_SingleSectionParsed ==
    Returned =>
        \A i \in 1..Len(shape) :
            OnlySection(i) =>
                parsed = Record(shape[i].begin,
                                RefDecode(Unwrapped(shape[i].body)))

\* C1 happens: a section between two pieces of other text has been parsed,
\* its body wrapped in line breaks.
C1_Witness ==
    /\ Returned
    /\ Len(shape) = 3
    /\ OnlySection(2)
    /\ shape[2].body # Unwrapped(shape[2].body)
    /\ parsed.some

\* The section every item of the input is, when each is a section with the
\* same label twice and a body from_base64 decodes, or whitespace.
WellFormed ==
    \A i \in 1..Len(shape) :
        \/ IsBlank(shape[i])
        \/ /\ Matching(shape[i])
           /\ FromBase64(ReplaceWhitespace(shape[i].body)).ok

RECURSIVE RecordsOf(_)
RecordsOf(items) ==
    IF items = <<>> THEN <<>>
    ELSE (IF IsSection(Head(items))
          THEN <<Record(Head(items).begin,
                        FromBase64(ReplaceWhitespace(Head(items).body)).bytes)>>
          ELSE <<>>) \o RecordsOf(Tail(items))

\* C2: on an input of N sections separated by whitespace only, each with the
\* same label twice and a body that decodes, parse_many returns N records,
\* the i-th with the tag and the contents of the i-th section.
C2_OneRecordPerSection ==
    (Done /\ WellFormed) => many = RecordsOf(shape)

\* C2 happens: parse_many returned the records of three sections, not all
\* with the same tag.
C2_Witness ==
    /\ Done
    /\ WellFormed
    /\ Len(many) = 3
    /\ many[1].tag # many[2].tag

\* C3 as claimed: parse returns the first record of parse_many, and nothing
\* exactly when parse_many returns no record.
C3_AsClaimed ==
    Done => /\ many # <<>> => parsed = many[1]
            /\ parsed = None <=> many = <<>>

\* C3: parse returns what parse_helper makes of the first candidate alone:
\* the first record of parse_many when the first candidate is accepted,
\* nothing when there is no candidate or the first one is rejected.
C3_FirstCandidateOnly ==
    Done => parsed = (IF cands # <<>> /\ Accepted(cands[1]) THEN many[1] ELSE None)

\* C3 happens: the first candidate was accepted and a later one was too.
C3_Witness ==
    /\ Done
    /\ Len(many) >= 2
    /\ Accepted(cands[1])
    /\ parsed = many[1]

\* C4: when the first candidate has two different labels or a body that
\* does not decode, parse returns nothing, whatever follows it.
C4_NoSecondAttempt ==
    (Done /\ cands # <<>> /\ ~Accepted(cands[1])) => parsed = None

\* C4 happens: the first candidate was rejected, parse returned nothing and
\* parse_many a record of a later section.
C4_Witness ==
    /\ Done
    /\ cands # <<>>
    /\ ~Accepted(cands[1])
    /\ parsed = None
    /\ many # <<>>

\* The candidates parse_helper accepts, in order.
RECURSIVE AcceptedOf(_)
AcceptedOf(cs) ==
    IF cs = <<>> THEN <<>>
    ELSE (IF Accepted(Head(cs)) THEN <<Head(cs)>> ELSE <<>>) \o AcceptedOf(Tail(cs))

\* The record r is the one of candidate c, which has the same label twice.
RecordOfCandidate(r, c) ==
    /\ c.ok
    /\ c.begin = c.end
    /\ r = Record(c.end, FromBase64(ReplaceWhitespace(c.data)).bytes)

\* The records rs are, one for one and in order, those of the candidates cs.
RecordsOfCandidates(rs, cs) ==
    /\ Len(rs) = Len(cs)
    /\ \A i \in 1..Len(rs) : RecordOfCandidate(rs[i], cs[i])

\* C5: the records of parse_many are, one for one and in order, those of the
\* candidates with two identical labels and a body that decodes, each with
\* its candidate's label as tag; a candidate with two different labels gives
\* no record, so that an input of sections and marker-free text gives no
\* more records than it has sections with the same label twice; and a record
\* parse returns comes of such a candidate too.
C5_RecordsOfAcceptedOnly ==
    /\ RecordsOfCandidates(many, AcceptedOf(cands))
    /\ (Done /\ \A i \in 1..Len(shape) : IsSection(shape[i]) \/ IsPlain(shape[i])) =>
          Len(many) <= Cardinality({i \in 1..Len(shape) : Matching(shape[i])})
    /\ (Returned /\ parsed.some) => RecordOfCandidate(parsed, Captures(input, 1))

\* C5 happens: of two candidates, the one with different labels (they differ
\* in case only) gave no record and the other one did.
C5_Witness ==
    /\ Done
    /\ Len(cands) = 2
    /\ cands[1].begin # cands[1].end
    /\ FromBase64(ReplaceWhitespace(cands[1].data)).ok
    /\ Len(many) = 1

\* The four literals of the pattern occur in s in the pattern's order, the
\* first of them at or after position p: some text of s from p on matches
\* the pattern, whatever the priorities of the matching.
PairFrom(s, p) ==
    \E b \in Occurrences(s, BeginMarker, p) :
        \E c \in Occurrences(s, Dashes, b + Len(BeginMarker)) :
            \E e \in Occurrences(s, EndMarker, c + Len(Dashes)) :
                Occurrences(s, Dashes, e + Len(EndMarker)) # {}

\* C6: on an input in which no opening marker and closing marker make a
\* section (the empty input, an opening marker alone, a closing marker
\* alone), parse returns nothing and parse_many returns no record.
C6_NoSectionNoRecord ==
    ~PairFrom(input, 1) =>
        /\ Returned => parsed = None
        /\ Done => many = <<>> /\ cands = <<>>

\* C6 happens: both entry points returned on an input that holds an opening
\* and a closing marker and still no section.
C6_Witness ==
    /\ Done
    /\ ~PairFrom(input, 1)
    /\ Occurrences(input, BeginMarker, 1) # {}
    /\ Occurrences(input, EndMarker, 1) # {}
    /\ parsed = None
    /\ many = <<>>

\* The input alone is one section with the same label twice.
OneMatching == Len(shape) = 1 /\ Matching(shape[1])

\* C7: a section gives both entry points what the section with the same label
\* and the unwrapped body (its line breaks and plain spaces removed) gives
\* them: the same record, or none.
C7_WrappingIgnored ==
    (Done /\ OneMatching) =>
        /\ parsed = Parse(Flatten(<<Sec(shape[1].begin, Unwrapped(shape[1].body),
                                        shape[1].end)>>))
        /\ many = ParseMany(Flatten(<<Sec(shape[1].begin, Unwrapped(shape[1].body),
                                          shape[1].end)>>))

\* C7 happens: a body with a space and a line break between its base64
\* characters was decoded to the byte of the unwrapped body.
C7_Witness ==
    /\ Done
    /\ OneMatching
    /\ \E i, j \in 2..Len(shape[1].body) - 1 :
          /\ shape[1].body[i] = " "
          /\ shape[1].body[j] = "NL"
          /\ ~IsSpace(shape[1].body[1])
          /\ ~IsSpace(shape[1].body[Len(shape[1].body)])
    /\ parsed = Record(shape[1].begin, <<65>>)
    /\ many = <<parsed>>

\* The input alone is one section.
OneSection == Len(shape) = 1 /\ IsSection(shape[1])

Decodable == StandardAlphabet \cup {"-", "_", "=", "CR", "NL", " "}

BracketEnd(c) == c.start + Len(BeginMarker) + Len(c.begin) + Len(Dashes)

\* Where the search that found the i-th candidate began.
ResumedAt(i) == IF i = 1 THEN 1 ELSE cands[i - 1].stop

C10_ParseIsFirstOfMany ==
    (Done /\ parsed.some) => (many # <<>> /\ many[1] = parsed)

\* C10 happens: parse returned a record on an input of several candidates,
\* and parse_many that record and another.
C10_Witness ==
    /\ Done
    /\ parsed.some
    /\ Len(cands) >= 2
    /\ Len(many) >= 2
    /\ many[1] = parsed

=============================================================================
